---------------------------- MODULE Spec2Model ----------------------------
(***************************************************************************)
(* SWE Week procurement and budget tracker: the two helpers of             *)
(* src/utils/helpers.js (formatCurrency, calculateMetrics) and the state   *)
(* and handlers of the App component (filters, done toggles, CSV export).  *)
(*                                                                         *)
(* A JavaScript string is a sequence of one-character strings, so that     *)
(* includes, replace, join and toLocaleString are computed character by    *)
(* character.  A JavaScript value whose type the code inspects (cost,      *)
(* event, the argument of formatCurrency) is a record [t, n, s]: t is      *)
(* the typeof tag, n the number, s the string.  Numbers are integers.      *)
(***************************************************************************)
EXTENDS Integers, Sequences, FiniteSets, TLC

VARIABLES
    input,         \* the list handed to calculateMetrics
    result,        \* what the last call of calculateMetrics produced
    heapTotals,    \* members of Object.prototype whose value carries a `total` property
    callsLeft,     \* calls of calculateMetrics still to be made
    amount,        \* the argument of formatCurrency
    formatted,     \* what formatCurrency returned for it
    rawInitialData,\* the imported initialData array
    data,          \* App state: the item list
    filters,       \* App state: {type, cost}
    filteredData,  \* rows handed to ProcurementTable by the last render
    metrics,       \* calculateMetrics(data) of the last render
    csvContent     \* text handed to navigator.clipboard.writeText by the last export

vars == <<input, result, heapTotals, callsLeft, amount, formatted, rawInitialData,
          data, filters, filteredData, metrics, csvContent>>

metricsVars == <<input, result, heapTotals, callsLeft>>
formatVars == <<amount, formatted>>
appVars == <<rawInitialData, data, filters, filteredData, metrics, csvContent>>

----------------------------------------------------------------------------
(* Bounds *)

MaxLenTotals == 3
MaxLenTop == 4
MaxLenRobust == 3
MaxCalls == 3
MaxAmount == 1100
MaxLenApp == 2

----------------------------------------------------------------------------
(* String literals of the source *)

S_NA == <<"N", "/", "A">>
S_Error == <<"E", "r", "r", "o", "r">>
S_Summary == <<"S", "u", "m", "m", "a", "r", "y">>
S_Budget == <<"B", "u", "d", "g", "e", "t">>
S_Unpriced == <<"U", "n", "p", "r", "i", "c", "e", "d">>
S_Priced == <<"P", "r", "i", "c", "e", "d">>
S_undefined == <<"u", "n", "d", "e", "f", "i", "n", "e", "d">>
S_All == <<"A", "l", "l">>
S_YES == <<"Y", "E", "S">>
S_NO == <<"N", "O">>
S_QuoteNeeded == <<"Q", "U", "O", "T", "E", " ", "N", "E", "E", "D", "E", "D">>
S_SummaryLine == <<"S", "U", "M", "M", "A", "R", "Y", " ", "L", "I", "N", "E">>
S_Naira == <<"₦">>

(* The property names every object literal inherits from Object.prototype. *)
ObjectPrototypeNames ==
    { <<"c", "o", "n", "s", "t", "r", "u", "c", "t", "o", "r">>,
      <<"_", "_", "p", "r", "o", "t", "o", "_", "_">>,
      <<"t", "o", "S", "t", "r", "i", "n", "g">>,
      <<"v", "a", "l", "u", "e", "O", "f">>,
      <<"h", "a", "s", "O", "w", "n", "P", "r", "o", "p", "e", "r", "t", "y">>,
      <<"i", "s", "P", "r", "o", "t", "o", "t", "y", "p", "e", "O", "f">>,
      <<"p", "r", "o", "p", "e", "r", "t", "y", "I", "s", "E", "n", "u", "m", "e", "r", "a", "b", "l", "e">>,
      <<"t", "o", "L", "o", "c", "a", "l", "e", "S", "t", "r", "i", "n", "g">>,
      <<"_", "_", "d", "e", "f", "i", "n", "e", "G", "e", "t", "t", "e", "r", "_", "_">>,
      <<"_", "_", "d", "e", "f", "i", "n", "e", "S", "e", "t", "t", "e", "r", "_", "_">>,
      <<"_", "_", "l", "o", "o", "k", "u", "p", "G", "e", "t", "t", "e", "r", "_", "_">>,
      <<"_", "_", "l", "o", "o", "k", "u", "p", "S", "e", "t", "t", "e", "r", "_", "_">> }

----------------------------------------------------------------------------
(* JavaScript values and string primitives *)

Num(n) == [t |-> "number", n |-> n, s |-> <<>>]
Str(s) == [t |-> "string", n |-> 0, s |-> s]
Undefined == [t |-> "undefined", n |-> 0, s |-> <<>>]

TypeOf(v) == v.t

Range(f) == {f[i] : i \in DOMAIN f}

Min(a, b) == IF a < b THEN a ELSE b

(* String.prototype.includes *)
Includes(str, sub) ==
    \E i \in 0..(Len(str) - Len(sub)) : SubSeq(str, i + 1, i + Len(sub)) = sub

Digits == <<"0", "1", "2", "3", "4", "5", "6", "7", "8", "9">>

DigitVal(c) == (CHOOSE i \in DOMAIN Digits : Digits[i] = c) - 1

IsDigit(c) == c \in Range(Digits)

(* Number.prototype.toString of a non-negative integer *)
RECURSIVE NatToString(_)
NatToString(n) ==
    IF n < 10 THEN <<Digits[n + 1]>>
    ELSE Append(NatToString(n \div 10), Digits[(n % 10) + 1])

(* Number.prototype.toString of an integer *)
NumberToString(n) == IF n < 0 THEN <<"-">> \o NatToString(-n) ELSE NatToString(n)

(* Numeric order of two canonical decimal strings (no leading zero) *)
DecimalLess(a, b) ==
    \/ Len(a) < Len(b)
    \/ /\ Len(a) = Len(b)
       /\ \E i \in DOMAIN a :
             /\ SubSeq(a, 1, i - 1) = SubSeq(b, 1, i - 1)
             /\ DigitVal(a[i]) < DigitVal(b[i])

S_MaxArrayIndex == <<"4", "2", "9", "4", "9", "6", "7", "2", "9", "4">>

(* Property key of a value used in a computed member access obj[v] *)
ToPropertyKey(v) ==
    CASE v.t = "string" -> v.s
      [] v.t = "number" -> NumberToString(v.n)
      [] OTHER -> S_undefined

(* A key is an array index when it is the canonical decimal form of an
   integer in 0 .. 2^32 - 2; such keys are enumerated first, in ascending
   numeric order, by Object.entries. *)
IsArrayIndex(key) ==
    /\ Len(key) >= 1
    /\ \A i \in DOMAIN key : IsDigit(key[i])
    /\ (Len(key) = 1 \/ key[1] # "0")
    /\ (key = S_MaxArrayIndex \/ DecimalLess(key, S_MaxArrayIndex))


----------------------------------------------------------------------------
(* calculateMetrics *)

LineItem(id, type, description, event, cost, costType, status, excludeFromSum, done) ==
    [id |-> id, type |-> type, description |-> description, event |-> event,
     cost |-> cost, costType |-> costType, status |-> status,
     excludeFromSum |-> excludeFromSum, done |-> done]

(* typeof item.cost === 'number' && !item.excludeFromSum *)
CountsTowardsSum_IgnoreExclude(item) == TypeOf(item.cost) = "number"

CountsTowardsSum(item) == TypeOf(item.cost) = "number" /\ ~item.excludeFromSum

(* item.status === 'Unpriced' *)
IsUnpriced_ByCost(item) == item.cost = Str(S_NA)

IsUnpriced(item) == item.status = S_Unpriced

(* costsByType is a sequence of own properties [key, total, items] in the
   order the properties were created. *)
HasOwnProperty(costsByType, key) == \E i \in DOMAIN costsByType : costsByType[i].key = key

(* The state of the forEach callback: the three locals, the global heap and
   whether a TypeError has ended the call. *)
InitialLocals(heap) ==
    [totalConfirmedBudget |-> 0, unpricedItems |-> <<>>, costsByType |-> <<>>,
     heap |-> heap, threw |-> FALSE]

(* One run of the forEach callback (lines 12-32).  When phase names a member
   of Object.prototype that costsByType does not own, costsByType[phase]
   is that inherited (truthy) member: no bucket is created, the += of line 29
   writes a NaN `total` onto the inherited object, and line 31 reads its
   undefined `items` and throws. *)
ForEachBody(loc, item) ==
    IF loc.threw THEN loc
    ELSE
      LET total1 == IF CountsTowardsSum(item)
                    THEN loc.totalConfirmedBudget + item.cost.n
                    ELSE loc.totalConfirmedBudget
          unpriced1 == IF IsUnpriced(item)
                       THEN Append(loc.unpricedItems, item)
                       ELSE loc.unpricedItems
          phase == ToPropertyKey(item.event)
          own == HasOwnProperty(loc.costsByType, phase)
      IN IF ~own /\ phase \in ObjectPrototypeNames
         THEN [totalConfirmedBudget |-> total1, unpricedItems |-> unpriced1,
               costsByType |-> loc.costsByType,
               heap |-> IF CountsTowardsSum(item) THEN loc.heap \cup {phase} ELSE loc.heap,
               threw |-> TRUE]
         ELSE
           LET created == IF own THEN loc.costsByType
                          ELSE Append(loc.costsByType,
                                      [key |-> phase, total |-> 0, items |-> <<>>])
               updated == [i \in DOMAIN created |->
                            IF created[i].key = phase
                            THEN [key |-> phase,
                                  total |-> IF CountsTowardsSum(item)
                                            THEN created[i].total + item.cost.n
                                            ELSE created[i].total,
                                  items |-> Append(created[i].items, item)]
                            ELSE created[i]]
           IN [totalConfirmedBudget |-> total1, unpricedItems |-> unpriced1,
               costsByType |-> updated, heap |-> loc.heap, threw |-> FALSE]

(* data.forEach(...) *)
RECURSIVE ForEach(_, _, _)
ForEach(loc, items, i) ==
    IF i > Len(items) THEN loc
    ELSE ForEach(ForEachBody(loc, items[i]), items, i + 1)

(* Object.entries(costsByType): array-index keys in ascending numeric order,
   then the other keys in creation order. *)
ObjectEntries(costsByType) ==
    LET indexed == SelectSeq(costsByType, LAMBDA e : IsArrayIndex(e.key))
        named == SelectSeq(costsByType, LAMBDA e : ~IsArrayIndex(e.key))
        rank(e) == Cardinality({f \in Range(indexed) : DecimalLess(f.key, e.key)})
        ascending == [k \in 1..Len(indexed) |->
                        CHOOSE e \in Range(indexed) : rank(e) = k - 1]
    IN ascending \o named

(* The predicate of .filter (line 36) *)
IsCandidate_NoNameFilter(entry) == entry.total > 0

IsCandidate(entry) ==
    /\ ~Includes(entry.key, S_Summary)
    /\ ~Includes(entry.key, S_Budget)
    /\ entry.total > 0

(* Array.prototype.sort with comparator b.total - a.total: a stable sort,
   descending by total.  Each element is inserted after the elements that
   do not compare below it. *)
RECURSIVE InsertDescending(_, _)
InsertDescending(sorted, e) ==
    IF sorted = <<>> THEN <<e>>
    ELSE IF sorted[Len(sorted)].total - e.total >= 0
         THEN Append(sorted, e)
         ELSE Append(InsertDescending(SubSeq(sorted, 1, Len(sorted) - 1), e),
                     sorted[Len(sorted)])

RECURSIVE SortInto(_, _, _)
SortInto(sorted, entries, i) ==
    IF i > Len(entries) THEN sorted
    ELSE SortInto(InsertDescending(sorted, entries[i]), entries, i + 1)

SortByTotalDescending_Unsorted(entries) == entries

SortByTotalDescending(entries) == SortInto(<<>>, entries, 1)

(* .slice(0, 3) *)
Slice03(entries) == SubSeq(entries, 1, Min(3, Len(entries)))

(* Lines 35-43 *)
Top3CostGroupings(costsByType) ==
    LET sortedCosts == Slice03(SortByTotalDescending(
                           SelectSeq(ObjectEntries(costsByType), IsCandidate)))
    IN [i \in DOMAIN sortedCosts |->
          [phase |-> sortedCosts[i].key, total |-> sortedCosts[i].total]]

NoResult ==
    [outcome |-> "none", totalConfirmedBudget |-> 0, unpricedItems |-> <<>>,
     top3CostGroupings |-> <<>>]

(* calculateMetrics(data), run with the global heap in state heap: the value
   returned, or the TypeError, and the heap the call leaves behind. *)
calculateMetrics(items, heap) ==
    LET loc == ForEach(InitialLocals(heap), items, 1)
    IN IF loc.threw
       THEN [outcome |-> "threw", totalConfirmedBudget |-> 0, unpricedItems |-> <<>>,
             top3CostGroupings |-> <<>>, heap |-> loc.heap]
       ELSE [outcome |-> "returned",
             totalConfirmedBudget |-> loc.totalConfirmedBudget,
             unpricedItems |-> loc.unpricedItems,
             top3CostGroupings |-> Top3CostGroupings(loc.costsByType),
             heap |-> loc.heap]

(* The buckets calculateMetrics builds for items: the local costsByType
   when the loop ends. *)
CostsByType(items) == ForEach(InitialLocals({}), items, 1).costsByType

ResultOf(r) ==
    [outcome |-> r.outcome, totalConfirmedBudget |-> r.totalConfirmedBudget,
     unpricedItems |-> r.unpricedItems, top3CostGroupings |-> r.top3CostGroupings]


----------------------------------------------------------------------------
(* Input lists for calculateMetrics.  The fields calculateMetrics does not
   read take the values of the first record of initialData; ids are the
   positions, so that the ids of a list are distinct. *)

S_A == <<"A">>
S_B == <<"B">>
S_2 == <<"2">>
S_10 == <<"1", "0">>
S_Empty == <<>>
S_abc == <<"a", "b", "c">>
S_BudgetSummary == <<"B", "u", "d", "g", "e", "t", " ", "S", "u", "m", "m", "a", "r", "y">>
S_constructor == <<"c", "o", "n", "s", "t", "r", "u", "c", "t", "o", "r">>
S_proto == <<"_", "_", "p", "r", "o", "t", "o", "_", "_">>
S_Procurement == <<"P", "r", "o", "c", "u", "r", "e", "m", "e", "n", "t">>
S_CAPEX == <<"C", "A", "P", "E", "X">>

ListsOf(shapes, maxLen) ==
    UNION {[1..n -> shapes] : n \in 0..maxLen}

ItemsOf(shapeList) ==
    [i \in DOMAIN shapeList |->
        LineItem(NatToString(i), S_Procurement, <<"d">>, shapeList[i].event,
                 shapeList[i].cost, S_CAPEX, shapeList[i].status,
                 shapeList[i].excludeFromSum, FALSE)]

TotalsShapes ==
    [event : {Str(S_A), Str(S_constructor)},
     cost : {Num(1), Num(2), Str(S_NA)},
     status : {S_Priced, S_Unpriced},
     excludeFromSum : BOOLEAN]

TopShapes ==
    { [event |-> Str(e), cost |-> c.cost, status |-> S_Priced,
       excludeFromSum |-> c.excludeFromSum] :
        e \in {S_A, S_B, S_2, S_10, S_BudgetSummary},
        c \in { [cost |-> Num(1), excludeFromSum |-> FALSE],
                [cost |-> Num(2), excludeFromSum |-> FALSE],
                [cost |-> Num(2), excludeFromSum |-> TRUE] } }

RobustShapes ==
    [event : {Str(S_A), Str(S_Empty), Undefined, Str(S_undefined),
              Str(S_constructor), Str(S_proto)},
     cost : {Num(1), Str(S_NA), Str(S_abc)},
     status : {S_Priced},
     excludeFromSum : {FALSE}]

OtherLists ==
    { ItemsOf(<<sh>>) :
        sh \in [event : {Str(S_A), Str(S_proto)}, cost : {Num(2)},
                status : {S_Priced}, excludeFromSum : {FALSE}] }

----------------------------------------------------------------------------
(* Calls of calculateMetrics *)

AppIdle ==
    /\ rawInitialData = <<>>
    /\ data = <<>>
    /\ filters = [type |-> S_All, cost |-> S_All]
    /\ filteredData = <<>>
    /\ metrics = NoResult
    /\ csvContent = <<>>

FormatIdle ==
    /\ amount = Undefined
    /\ formatted = <<>>

MetricsIdle ==
    /\ input = <<>>
    /\ result = NoResult
    /\ callsLeft = 0

InitMetrics(shapes, maxLen, calls) ==
    /\ input \in {ItemsOf(l) : l \in ListsOf(shapes, maxLen)}
    /\ result = NoResult
    /\ heapTotals = {}
    /\ callsLeft = calls
    /\ FormatIdle
    /\ AppIdle

(* A call calculateMetrics(input) *)
Aggregate ==
    /\ callsLeft > 0
    /\ LET r == calculateMetrics(input, heapTotals)
       IN /\ result' = ResultOf(r)
          /\ heapTotals' = r.heap
    /\ callsLeft' = callsLeft - 1
    /\ UNCHANGED <<input, formatVars, appVars>>

(* A call of calculateMetrics on another list, between two calls on input *)
AggregateOther ==
    /\ callsLeft > 0
    /\ \E other \in OtherLists :
          heapTotals' = calculateMetrics(other, heapTotals).heap
    /\ callsLeft' = callsLeft - 1
    /\ UNCHANGED <<input, result, formatVars, appVars>>

InitTotals == InitMetrics(TotalsShapes, MaxLenTotals, 1)
NextTotals == Aggregate
SpecTotals == InitTotals /\ [][NextTotals]_vars

InitTop == InitMetrics(TopShapes, MaxLenTop, 1)
NextTop == Aggregate
SpecTop == InitTop /\ [][NextTop]_vars

InitRobust == InitMetrics(RobustShapes, MaxLenRobust, MaxCalls)
NextRobust == Aggregate \/ AggregateOther
SpecRobust == InitRobust /\ [][NextRobust]_vars


----------------------------------------------------------------------------
(* Properties of calculateMetrics *)

RECURSIVE SumOfCosts(_, _)
SumOfCosts(items, indices) ==
    IF indices = {} THEN 0
    ELSE LET i == CHOOSE j \in indices : TRUE
         IN items[i].cost.n + SumOfCosts(items, indices \ {i})

Returned == result.outcome = "returned"

NumericIncluded(items) ==
    {i \in DOMAIN items : items[i].cost.t = "number" /\ items[i].excludeFromSum = FALSE}

WithoutIndex(items, i) ==
    [k \in 1..(Len(items) - 1) |-> IF k < i THEN items[k] ELSE items[k + 1]]

(* C1: the total returned is the sum of cost over exactly the items whose
   cost is a number and whose excludeFromSum is false; taking an excluded
   item or an item with cost "N/A" out of the list leaves the total as it
   is. *)
C1_TotalIsSumOfIncludedCosts ==
    Returned =>
        /\ result.totalConfirmedBudget = SumOfCosts(input, NumericIncluded(input))
        /\ \A i \in DOMAIN input :
              (input[i].excludeFromSum \/ input[i].cost = Str(S_NA)) =>
                 LET r == calculateMetrics(WithoutIndex(input, i), {})
                 IN r.outcome = "returned" =>
                      r.totalConfirmedBudget = result.totalConfirmedBudget

C1_Witness ==
    /\ Returned
    /\ result.totalConfirmedBudget = 2
    /\ \E i \in DOMAIN input : input[i].excludeFromSum /\ input[i].cost.t = "number"
    /\ \E i \in DOMAIN input : input[i].cost = Str(S_NA) /\ ~input[i].excludeFromSum

UnpricedIndices(items) == {i \in DOMAIN items : items[i].status = S_Unpriced}

(* C2: unpricedItems is the subsequence of the input made of the items with
   status "Unpriced": its k-th element is the input item at the k-th
   smallest index of such an item. *)
C2_UnpricedIsTheSubsequence ==
    Returned =>
        LET U == UnpricedIndices(input)
        IN /\ Len(result.unpricedItems) = Cardinality(U)
           /\ \A i \in U :
                 result.unpricedItems[Cardinality({j \in U : j < i}) + 1] = input[i]

C2_Witness ==
    /\ Returned
    /\ Len(input) = 3
    /\ input[1].status = S_Unpriced /\ input[1].cost.t = "number"
    /\ input[2].status = S_Priced /\ input[2].cost = Str(S_NA)
    /\ input[3].status = S_Unpriced
    /\ Len(result.unpricedItems) = 2

EventsOf(items) == {items[i].event : i \in DOMAIN items}

PhaseTotal(items, event) ==
    SumOfCosts(items, {i \in NumericIncluded(items) : items[i].event = event})

CandidatePhases(items) ==
    {e \in EventsOf(items) :
        /\ ~Includes(ToPropertyKey(e), S_Summary)
        /\ ~Includes(ToPropertyKey(e), S_Budget)
        /\ PhaseTotal(items, e) > 0}

EmittedPhases == {result.top3CostGroupings[i].phase : i \in DOMAIN result.top3CostGroupings}

(* C3: top3CostGroupings holds no phase whose key contains "Summary" or
   "Budget", no phase with a total <= 0, at most 3 entries, and is sorted
   descending by total. *)
C3_Top3NamesTotalsLengthOrder ==
    Returned =>
        LET top == result.top3CostGroupings
        IN /\ \A i \in DOMAIN top :
                 /\ ~Includes(top[i].phase, S_Summary)
                 /\ ~Includes(top[i].phase, S_Budget)
                 /\ top[i].total > 0
           /\ Len(top) <= 3
           /\ \A i, j \in DOMAIN top : i < j => top[i].total >= top[j].total

C3_Witness ==
    /\ Returned
    /\ Cardinality(CandidatePhases(input)) = 3
    /\ PhaseTotal(input, Str(S_BudgetSummary)) > 0
    /\ Len(result.top3CostGroupings) = 3
    /\ result.top3CostGroupings[1].total > result.top3CostGroupings[3].total

ScenarioItems ==
    <<LineItem(<<"1">>, S_Procurement, <<"d">>, Str(S_A), Num(500), S_CAPEX,
               S_Priced, FALSE, FALSE),
      LineItem(<<"2">>, S_Procurement, <<"d">>, Str(S_A), Num(300), S_CAPEX,
               S_Unpriced, FALSE, FALSE),
      LineItem(<<"3">>, S_Procurement, <<"d">>, Str(S_BudgetSummary), Num(10000),
               S_CAPEX, S_Priced, TRUE, FALSE)>>

(* C4: top3CostGroupings has min(3, n) entries for n candidate phases; the
   entries are distinct candidate phases, each with the sum of the included
   numeric costs of its items; no candidate left out has a greater total than
   an emitted one; and items A/500, A/300, excluded "Budget Summary"/10000
   give [{phase: "A", total: 800}]. *)
C4_Top3IsTheLargestCandidates ==
    /\ Returned =>
        LET top == result.top3CostGroupings
            cand == CandidatePhases(input)
        IN /\ Len(top) = Min(3, Cardinality(cand))
           /\ \A i \in DOMAIN top :
                 \E e \in cand : /\ top[i].phase = ToPropertyKey(e)
                                 /\ top[i].total = PhaseTotal(input, e)
           /\ \A i, j \in DOMAIN top : i # j => top[i].phase # top[j].phase
           /\ \A e \in cand :
                 ToPropertyKey(e) \notin EmittedPhases =>
                    \A i \in DOMAIN top : PhaseTotal(input, e) <= top[i].total
    /\ calculateMetrics(ScenarioItems, {}).top3CostGroupings
          = <<[phase |-> S_A, total |-> 800]>>

C4_Witness ==
    /\ Returned
    /\ Cardinality(CandidatePhases(input)) = 4
    /\ Len(result.top3CostGroupings) = 3
    /\ \E e \in CandidatePhases(input) :
          /\ ToPropertyKey(e) \notin EmittedPhases
          /\ PhaseTotal(input, e) < result.top3CostGroupings[3].total

FirstOccurrence(items, key) ==
    CHOOSE i \in DOMAIN items :
        /\ ToPropertyKey(items[i].event) = key
        /\ \A j \in 1..(i - 1) : ToPropertyKey(items[j].event) # key

(* C5: candidate phases with equal totals appear in top3CostGroupings in the
   order of their first occurrence in the input, and of two such phases the
   one kept by the cut to 3 is the one that occurs first; for every key,
   keys that look like non-negative integers included. *)
C5_TiesInFirstOccurrenceOrder ==
    Returned =>
        LET top == result.top3CostGroupings
        IN /\ \A i, j \in DOMAIN top :
                 (i < j /\ top[i].total = top[j].total) =>
                    FirstOccurrence(input, top[i].phase)
                       < FirstOccurrence(input, top[j].phase)
           /\ \A e \in CandidatePhases(input), i \in DOMAIN top :
                 (/\ ToPropertyKey(e) \notin EmittedPhases
                  /\ PhaseTotal(input, e) = top[i].total) =>
                    FirstOccurrence(input, top[i].phase)
                       < FirstOccurrence(input, ToPropertyKey(e))

(* C6: calculateMetrics raises for no item list, and every distinct event
   value of the list has a bucket of its own. *)
C6_NeverThrowsOneBucketPerEvent ==
    /\ result.outcome # "threw"
    /\ Returned => Len(CostsByType(input)) = Cardinality(EventsOf(input))

(* C7: a call changes neither the input list nor any state that outlives
   it, and a later call on the same list gives the same result. *)
C7_PureAndIdempotent ==
    [][/\ input' = input
       /\ heapTotals' = heapTotals
       /\ (result.outcome # "none" => result' = result)]_vars


----------------------------------------------------------------------------
(* formatCurrency *)

(* The digits of an integer in groups of three counted from the right,
   separated by commas: the en-US grouping of toLocaleString. *)
RECURSIVE GroupThousands_GroupsOfTwo(_)
GroupThousands_GroupsOfTwo(digits) ==
    IF Len(digits) <= 2 THEN digits
    ELSE GroupThousands_GroupsOfTwo(SubSeq(digits, 1, Len(digits) - 2)) \o <<",">>
            \o SubSeq(digits, Len(digits) - 1, Len(digits))

RECURSIVE GroupThousands(_)
GroupThousands(digits) ==
    IF Len(digits) <= 3 THEN digits
    ELSE GroupThousands(SubSeq(digits, 1, Len(digits) - 3)) \o <<",">>
            \o SubSeq(digits, Len(digits) - 2, Len(digits))

(* amount.toLocaleString('en-US') of an integer *)
ToLocaleStringEnUS(n) ==
    IF n < 0 THEN <<"-">> \o GroupThousands(NatToString(-n))
    ELSE GroupThousands(NatToString(n))

formatCurrency(v) ==
    IF v = Str(S_NA) THEN S_NA
    ELSE IF TypeOf(v) # "number" THEN S_Error
    ELSE S_Naira \o ToLocaleStringEnUS(v.n)

S_1000 == <<"1", "0", "0", "0">>

Amounts ==
    {Num(n) : n \in 0..MaxAmount}
        \cup {Num(999), Num(1000), Num(999999), Num(1000000), Num(1234567),
              Num(-1), Num(-1000)}
        \cup {Str(S_NA), Str(S_abc), Str(S_Empty), Str(S_1000), Undefined}

InitFormat ==
    /\ amount \in Amounts
    /\ formatted = <<>>
    /\ MetricsIdle
    /\ heapTotals = {}
    /\ AppIdle

(* A call formatCurrency(amount) *)
Format ==
    /\ formatted = <<>>
    /\ formatted' = formatCurrency(amount)
    /\ UNCHANGED <<amount, metricsVars, appVars>>

NextFormat == Format
SpecFormat == InitFormat /\ [][NextFormat]_vars

WithoutCommas(str) == SelectSeq(str, LAMBDA c : c # ",")

(* C8: formatCurrency gives "N/A" exactly for the string "N/A", "Error" for
   every other value that is not a number, and for a non-negative integer
   the glyph followed by its decimal digits with a comma exactly at every
   fourth place counted from the right; 1000, 0 and 1234567 give "₦1,000",
   "₦0" and "₦1,234,567". *)
C8_FormatCurrency ==
    /\ formatted # <<>> =>
        /\ (formatted = S_NA) <=> (amount = Str(S_NA))
        /\ (amount.t # "number" /\ amount # Str(S_NA)) => formatted = S_Error
        /\ (amount.t = "number" /\ amount.n >= 0) =>
              LET body == SubSeq(formatted, 2, Len(formatted))
              IN /\ formatted[1] = "₦"
                 /\ WithoutCommas(body) = NatToString(amount.n)
                 /\ \A i \in DOMAIN body :
                       (body[i] = ",") <=> ((Len(body) - i + 1) % 4 = 0)
    /\ formatCurrency(Num(1000)) = <<"₦", "1", ",", "0", "0", "0">>
    /\ formatCurrency(Num(0)) = <<"₦", "0">>
    /\ formatCurrency(Num(1234567)) = <<"₦", "1", ",", "2", "3", "4", ",", "5", "6", "7">>
    /\ formatCurrency(Str(S_abc)) = S_Error
    /\ formatCurrency(Str(S_NA)) = S_NA

C8_Witness ==
    /\ amount = Num(1234567)
    /\ formatted = <<"₦", "1", ",", "2", "3", "4", ",", "5", "6", "7">>


----------------------------------------------------------------------------
(* App: state, render, handlers *)

S_type == <<"t", "y", "p", "e">>
S_cost == <<"c", "o", "s", "t">>
S_filterPrefix == <<"f", "i", "l", "t", "e", "r", "-">>
S_filterType == <<"f", "i", "l", "t", "e", "r", "-", "t", "y", "p", "e">>
S_filterCost == <<"f", "i", "l", "t", "e", "r", "-", "c", "o", "s", "t">>
S_Revenue == <<"R", "e", "v", "e", "n", "u", "e">>
S_CostProjection == <<"C", "o", "s", "t", " ", "P", "r", "o", "j", "e", "c", "t", "i", "o", "n">>
S_LaborStipend == <<"L", "a", "b", "o", "r", "/", "S", "t", "i", "p", "e", "n", "d">>
S_OPEX == <<"O", "P", "E", "X">>

(* The <option> values of the two <select> elements of ProcurementTable *)
SelectOptions(id) ==
    IF id = S_filterType
    THEN {S_All, S_Procurement, S_CostProjection, S_LaborStipend, S_Revenue}
    ELSE {S_All, S_Priced, S_Unpriced}

(* String.prototype.replace(pattern, replacement) with a string pattern:
   the first occurrence only. *)
ReplaceFirst(str, pattern, replacement) ==
    IF ~Includes(str, pattern) THEN str
    ELSE LET at == CHOOSE i \in 0..(Len(str) - Len(pattern)) :
                      /\ SubSeq(str, i + 1, i + Len(pattern)) = pattern
                      /\ \A j \in 0..(i - 1) :
                            SubSeq(str, j + 1, j + Len(pattern)) # pattern
         IN SubSeq(str, 1, at) \o replacement
               \o SubSeq(str, at + Len(pattern) + 1, Len(str))

(* The predicate of data.filter in filteredData (lines 439-449) *)
IsVisible_SummaryAlwaysFiltered(item, f) ==
    LET matchesType == f[S_type] = S_All \/ item.type = f[S_type]
        matchesCostStatus == f[S_cost] = S_All \/ item.status = f[S_cost]
    IN matchesType /\ matchesCostStatus

IsVisible(item, f) ==
    IF item.costType = S_Summary \/ item.costType = S_Budget
    THEN f[S_type] = S_All /\ f[S_cost] = S_All
    ELSE LET matchesType == f[S_type] = S_All \/ item.type = f[S_type]
             matchesCostStatus == f[S_cost] = S_All \/ item.status = f[S_cost]
         IN matchesType /\ matchesCostStatus

FilteredData(items, f) == SelectSeq(items, LAMBDA item : IsVisible(item, f))

(* What a render of App computes from the state: the two useMemo values. *)
Render(items, f) ==
    LET m == calculateMetrics(items, heapTotals)
    IN /\ filteredData' = FilteredData(items, f)
       /\ metrics' = ResultOf(m)
       /\ heapTotals' = m.heap

AppShapes ==
    { [type |-> S_Procurement, description |-> <<"S", "e", "t">>, event |-> Str(S_A),
       cost |-> Num(8000), costType |-> S_CAPEX, status |-> S_Priced,
       excludeFromSum |-> FALSE],
      [type |-> S_Procurement, description |-> <<"\"", "G", "\"", ",", "x">>,
       event |-> Str(S_B), cost |-> Str(S_NA), costType |-> S_OPEX,
       status |-> S_Unpriced, excludeFromSum |-> FALSE],
      [type |-> S_Revenue, description |-> <<"R">>, event |-> Str(S_A),
       cost |-> Num(500), costType |-> S_Revenue, status |-> S_Priced,
       excludeFromSum |-> FALSE],
      [type |-> S_Procurement, description |-> <<"T">>, event |-> Str(S_BudgetSummary),
       cost |-> Num(10000), costType |-> S_Summary, status |-> S_Priced,
       excludeFromSum |-> TRUE],
      [type |-> S_CostProjection, description |-> <<"E">>, event |-> Str(S_B),
       cost |-> Str(S_NA), costType |-> S_Budget, status |-> S_Unpriced,
       excludeFromSum |-> FALSE] }

InitialDataOf(shapeList) ==
    [i \in DOMAIN shapeList |->
        LineItem(NatToString(i), shapeList[i].type, shapeList[i].description,
                 shapeList[i].event, shapeList[i].cost, shapeList[i].costType,
                 shapeList[i].status, shapeList[i].excludeFromSum, FALSE)]

(* App after its first render: useState(rawInitialData),
   useState({type: 'All', cost: 'All'}) *)
Init ==
    /\ rawInitialData \in {InitialDataOf(l) : l \in ListsOf(AppShapes, MaxLenApp)}
    /\ data = rawInitialData
    /\ filters = [k \in {S_type, S_cost} |-> S_All]
    /\ filteredData = FilteredData(rawInitialData, [k \in {S_type, S_cost} |-> S_All])
    /\ metrics = ResultOf(calculateMetrics(rawInitialData, {}))
    /\ heapTotals = {}
    /\ csvContent = <<>>
    /\ MetricsIdle
    /\ FormatIdle

(* handleFilterChange(e), e.target being one of the two selects *)
SetFilters(f, id, value) ==
    LET key == ReplaceFirst(id, S_filterPrefix, <<>>)
    IN [k \in DOMAIN f \cup {key} |-> IF k = key THEN value ELSE f[k]]

handleFilterChange ==
    \E id \in {S_filterType, S_filterCost} :
      \E value \in SelectOptions(id) :
        /\ filters' = SetFilters(filters, id, value)
        /\ Render(data, filters')
        /\ UNCHANGED <<rawInitialData, data, csvContent, input, result,
                       callsLeft, formatVars>>

(* prevData.map(item => item.id === id ? {...item, done: isChecked} : item) *)
ToggleDone_EveryItem(items, id, isChecked) ==
    [i \in DOMAIN items |-> [items[i] EXCEPT !.done = isChecked]]

ToggleDone(items, id, isChecked) ==
    [i \in DOMAIN items |->
        IF items[i].id = id THEN [items[i] EXCEPT !.done = isChecked] ELSE items[i]]

(* handleToggleDone(item.id, e.target.checked), from the checkbox of a row
   the table shows *)
handleToggleDone ==
    \E i \in DOMAIN filteredData :
      \E isChecked \in BOOLEAN :
        /\ data' = ToggleDone(data, filteredData[i].id, isChecked)
        /\ Render(data', filters)
        /\ UNCHANGED <<rawInitialData, filters, csvContent, input, result,
                       callsLeft, formatVars>>

Headers ==
    <<<<"C", "o", "m", "p", "l", "e", "t", "e", "d">>,
      <<"I", "D">>,
      <<"D", "e", "s", "c", "r", "i", "p", "t", "i", "o", "n">>,
      <<"E", "v", "e", "n", "t", " ", "P", "h", "a", "s", "e">>,
      <<"T", "y", "p", "e">>,
      <<"C", "o", "s", "t", " ", "T", "y", "p", "e">>,
      <<"P", "r", "o", "j", "e", "c", "t", "e", "d", " ", "C", "o", "s", "t", " ", "(", "₦", ")">>,
      <<"N", "o", "t", "e", "s">>>>

RECURSIVE Join(_, _)
(* Array.prototype.join *)
Join(parts, separator) ==
    IF parts = <<>> THEN <<>>
    ELSE IF Len(parts) = 1 THEN parts[1]
    ELSE Join(SubSeq(parts, 1, Len(parts) - 1), separator) \o separator
            \o parts[Len(parts)]

(* description.replace(/"/g, '""') *)
RECURSIVE DoubleQuotes(_)
DoubleQuotes(str) ==
    IF str = <<>> THEN <<>>
    ELSE (IF str[1] = "\"" THEN <<"\"", "\"">> ELSE <<str[1]>>)
            \o DoubleQuotes(SubSeq(str, 2, Len(str)))

(* The text a template literal gives for a value *)
TemplateString(v) ==
    CASE v.t = "string" -> v.s
      [] v.t = "number" -> NumberToString(v.n)
      [] OTHER -> S_undefined

CostStr(item) ==
    IF item.cost = Str(S_NA) THEN S_NA
    ELSE IF TypeOf(item.cost) = "number" THEN NumberToString(item.cost.n)
    ELSE <<>>

Notes(item) ==
    IF item.status = S_Unpriced THEN S_QuoteNeeded
    ELSE IF item.costType = S_Summary THEN S_SummaryLine
    ELSE <<>>

(* One element of csvRows (lines 473-486) *)
CsvRow(item) ==
    LET fields == << IF item.done THEN S_YES ELSE S_NO,
                     item.id,
                     DoubleQuotes(item.description),
                     TemplateString(item.event),
                     item.type,
                     item.costType,
                     CostStr(item),
                     Notes(item) >>
    IN Join([i \in DOMAIN fields |-> <<"\"">> \o fields[i] \o <<"\"">>], <<",">>)

(* csvContent (lines 471-491) *)
CsvContent_FilteredRows(items) ==
    Join(<<Join(Headers, <<",">>)>> \o [i \in DOMAIN filteredData |-> CsvRow(filteredData[i])],
         <<"\n">>)

CsvContent(items) ==
    Join(<<Join(Headers, <<",">>)>> \o [i \in DOMAIN items |-> CsvRow(items[i])],
         <<"\n">>)

(* handleExportToCSV: the text is handed to navigator.clipboard.writeText;
   whether its promise resolves or rejects, the handlers of lines 494-499
   only raise an alert and change no state of App. *)
handleExportToCSV ==
    /\ csvContent' = CsvContent(data)
    /\ UNCHANGED <<rawInitialData, data, filters, filteredData, metrics, metricsVars,
                   formatVars>>

Next == handleFilterChange \/ handleToggleDone \/ handleExportToCSV

Spec == Init /\ [][Next]_vars


----------------------------------------------------------------------------
(* Properties of App *)

ShownIndices ==
    {i \in DOMAIN data :
        IF data[i].costType \in {S_Summary, S_Budget}
        THEN filters[S_type] = S_All /\ filters[S_cost] = S_All
        ELSE /\ (filters[S_type] = S_All \/ data[i].type = filters[S_type])
             /\ (filters[S_cost] = S_All \/ data[i].status = filters[S_cost])}

TableShowsVisibleItems ==
    /\ DOMAIN filters = {S_type, S_cost}
    /\ Len(filteredData) = Cardinality(ShownIndices)
    /\ \A i \in ShownIndices :
          filteredData[Cardinality({j \in ShownIndices : j < i}) + 1] = data[i]

FilterChangeFrame ==
    filters' # filters =>
        /\ data' = data
        /\ DOMAIN filters' = DOMAIN filters
        /\ Cardinality({k \in DOMAIN filters : filters'[k] # filters[k]}) = 1

(* C9: in every state of the UI the rows handed to the table are, in list
   order, exactly the items that are visible under the two filters (a
   Summary or Budget item only when both filters are "All"); a step that
   changes the filters changes one filter and leaves the other filter and
   the item list as they are. *)
C9_TableShowsVisibleItems ==
    /\ []TableShowsVisibleItems
    /\ [][FilterChangeFrame]_vars

C9_Witness ==
    /\ Len(data) = 2
    /\ data[1].costType = S_Summary /\ data[1].type = S_Procurement
    /\ data[2].costType = S_CAPEX /\ data[2].done
    /\ filters[S_type] = S_Procurement
    /\ filters[S_cost] = S_Priced
    /\ filteredData = <<data[2]>>

(* String.prototype.split on a one-character separator *)
RECURSIVE SplitOn(_, _)
SplitOn(str, c) ==
    IF \A i \in DOMAIN str : str[i] # c THEN <<str>>
    ELSE LET at == CHOOSE i \in DOMAIN str :
                      str[i] = c /\ \A j \in 1..(i - 1) : str[j] # c
         IN <<SubSeq(str, 1, at - 1)>> \o SplitOn(SubSeq(str, at + 1, Len(str)), c)

(* Reading one CSV record whose fields are all quoted.  A comma separates
   two fields when an even number of quotes precedes it; a field is its text
   between the two enclosing quotes, where quotes come in adjacent pairs and
   each pair stands for one quote. *)
QuotesUpTo(str, i) == Cardinality({k \in 1..i : str[k] = "\""})

SeparatorPositions(line) ==
    {i \in DOMAIN line : line[i] = "," /\ QuotesUpTo(line, i) % 2 = 0}

RawFields(line) ==
    LET seps == SeparatorPositions(line)
        sepAt(k) == CHOOSE i \in seps : Cardinality({j \in seps : j < i}) = k - 1
    IN [k \in 1..(Cardinality(seps) + 1) |->
          SubSeq(line,
                 IF k = 1 THEN 1 ELSE sepAt(k - 1) + 1,
                 IF k = Cardinality(seps) + 1 THEN Len(line) ELSE sepAt(k) - 1)]

IsQuotedField(raw) ==
    /\ Len(raw) >= 2
    /\ raw[1] = "\""
    /\ raw[Len(raw)] = "\""
    /\ LET inner == SubSeq(raw, 2, Len(raw) - 1)
       IN /\ QuotesUpTo(inner, Len(inner)) % 2 = 0
          /\ \A j \in DOMAIN inner :
                (inner[j] = "\"" /\ QuotesUpTo(inner, j) % 2 = 1) =>
                    (j < Len(inner) /\ inner[j + 1] = "\"")

Unquote(raw) ==
    LET inner == SubSeq(raw, 2, Len(raw) - 1)
        kept == {j \in DOMAIN inner :
                    inner[j] # "\"" \/ QuotesUpTo(inner, j) % 2 = 0}
    IN [k \in 1..Cardinality(kept) |->
          inner[CHOOSE j \in kept : Cardinality({m \in kept : m < j}) = k - 1]]

ReadQuoted(line) ==
    LET raw == RawFields(line)
    IN [ok |-> \A k \in DOMAIN raw : IsQuotedField(raw[k]),
        fields |-> [k \in DOMAIN raw |-> Unquote(raw[k])]]

SerializesWholeList(csv, items) ==
    LET lines == SplitOn(csv, "\n")
    IN /\ Len(lines) = Len(items) + 1
       /\ SplitOn(lines[1], ",") = Headers
       /\ Len(Headers) = 8
       /\ \A i \in DOMAIN items :
             LET row == ReadQuoted(lines[i + 1])
             IN /\ row.ok
                /\ Len(row.fields) = 8
                /\ row.fields[1] = (IF items[i].done THEN S_YES ELSE S_NO)
                /\ row.fields[2] = items[i].id
                /\ row.fields[3] = items[i].description
                /\ row.fields[5] = items[i].type

(* C10: whatever the filters are, a step that hands a new text to the
   clipboard hands over the header of 8 columns followed by one record per
   item of the whole list, in list order, of 8 quoted fields, the
   description with its quotes doubled and the Completed field telling the
   item's current done flag; the step changes neither the list nor the
   filters. *)
C10_ExportSerializesWholeList ==
    [][csvContent' # csvContent =>
          /\ SerializesWholeList(csvContent', data)
          /\ data' = data
          /\ filters' = filters
          /\ filteredData' = filteredData]_vars

C10_Witness ==
    /\ Len(data) = 2
    /\ data[1].done /\ ~data[2].done
    /\ Includes(data[2].description, <<"\"">>)
    /\ filters[S_cost] = S_Priced
    /\ Len(filteredData) = 1
    /\ Len(SplitOn(csvContent, "\n")) = 3
    /\ SubSeq(SplitOn(csvContent, "\n")[2], 1, 5) = <<"\"", "Y", "E", "S", "\"">>
    /\ Includes(SplitOn(csvContent, "\n")[3], <<"\"", "\"", "\"", "G", "\"", "\"", ",", "x", "\"">>)


----------------------------------------------------------------------------
(* Properties of the done toggle *)

SameButDone(a, b) ==
    /\ a.id = b.id
    /\ a.type = b.type
    /\ a.description = b.description
    /\ a.event = b.event
    /\ a.cost = b.cost
    /\ a.costType = b.costType
    /\ a.status = b.status
    /\ a.excludeFromSum = b.excludeFromSum

(* The updater of the handler, for the id of any item of the list (shown or
   not) and for an id no item has. *)
ToggleContract ==
    \A id \in {data[i].id : i \in DOMAIN data} \cup {S_Empty} :
      \A isChecked \in BOOLEAN :
        LET out == ToggleDone(data, id, isChecked)
        IN /\ Len(out) = Len(data)
           /\ \A i \in DOMAIN data :
                 IF data[i].id = id
                 THEN out[i].done = isChecked /\ SameButDone(out[i], data[i])
                 ELSE out[i] = data[i]

ListChangeIsOneToggle ==
    data' # data =>
        /\ filters' = filters
        /\ Len(data') = Len(data)
        /\ \E i \in DOMAIN data :
              /\ data'[i].done # data[i].done
              /\ SameButDone(data'[i], data[i])
              /\ \A j \in DOMAIN data : j # i => data'[j] = data[j]

FieldsKeepInitialValues ==
    /\ Len(data) = Len(rawInitialData)
    /\ \A i \in DOMAIN data : SameButDone(data[i], rawInitialData[i])

(* C11: the toggle for (id, checked) gives a list of the same length and
   order in which the item with that id has done = checked and is otherwise
   as before, and every other item is as before; a step that changes the
   item list is such a toggle of one item and leaves the filters as they
   are; so in every state each item has the id, event, cost, costType,
   status and excludeFromSum it started with. *)
C11_ToggleChangesOneDoneFlag ==
    /\ []ToggleContract
    /\ [][ListChangeIsOneToggle]_vars
    /\ []FieldsKeepInitialValues

C11_Witness ==
    /\ Len(data) = 2
    /\ ~data[1].done /\ data[2].done
    /\ data[1].costType = S_Summary
    /\ data[2].status = S_Unpriced
    /\ filters[S_cost] = S_Unpriced
    /\ filteredData = <<data[2]>>
    /\ ~rawInitialData[2].done
    /\ SameButDone(data[2], rawInitialData[2])

============================================================================
